---- MODULE Spec2Model ----
(***************************************************************************)
(* A model of the recipe-generation backend: the AI pipeline of            *)
(* app/services/ai_service.py behind the routes of app/routers, and the    *)
(* authentication flows of app/services/auth_service.py over the users     *)
(* table.                                                                  *)
(*                                                                         *)
(* Texts (user input, prompts, model replies, error strings) are sequences *)
(* of symbols.  A symbol is one character, or one word fragment that the   *)
(* code only ever treats as a unit.                                        *)
(***************************************************************************)
EXTENDS Integers, Sequences, FiniteSets, TLC

(***************************************************************************)
(* Bounds of the model.                                                    *)
(***************************************************************************)
\* longest raw reply of the model, in symbols
MaxTextLen == 3
\* longest upstream error string, in symbols
MaxErrLen == 2

(***************************************************************************)
(* Program constants.                                                      *)
(***************************************************************************)
max_retries == 3
retry_delay == 2
\* sanitized = sanitized[:1000]
SanitizeMaxLength == 1000

NULL == "NULL"

RECURSIVE Pow2(_)
Pow2(n) == IF n = 0 THEN 1 ELSE 2 * Pow2(n - 1)

\* all sequences over S of length 0..n
RECURSIVE SeqsUpTo(_, _)
SeqsUpTo(S, n) ==
  IF n = 0 THEN {<<>>}
  ELSE LET shorter == SeqsUpTo(S, n - 1)
       IN  shorter \cup {Append(s, x) : s \in {t \in shorter : Len(t) = n - 1}, x \in S}

Contains(text, S) == \E i \in 1..Len(text) : text[i] \in S

(***************************************************************************)
(* The input sanitizer, AIService._sanitize_input.                         *)
(***************************************************************************)
\* str.split() whitespace
WS == {" ", "\n"}

\* re.IGNORECASE: the lower-case form of a symbol
Lower(c) ==
  CASE c = "YOU" -> "you"
    [] c = "SYSTEM" -> "system"
    [] c = "JAVA" -> "java"
    [] c = "COOK" -> "cook"
    [] c = "Recipe" -> "recipe"
    [] OTHER -> c

Lit(alts) == [k |-> "lit", a |-> alts]
Opt(alts) == [k |-> "opt", a |-> alts]
Ws1 == [k |-> "ws", a |-> {}]

\* the index of the first symbol at or after i that is not whitespace
RECURSIVE SkipWs(_, _)
SkipWs(t, i) == IF i <= Len(t) /\ t[i] \in WS THEN SkipWs(t, i + 1) ELSE i

\* re.match of pattern pat (from element k) at position i of t:
\* the position after the match, or 0 when there is none
RECURSIVE MatchEnd(_, _, _, _)
MatchEnd(t, i, pat, k) ==
  IF k > Len(pat) THEN i
  ELSE LET e == pat[k]
           here == i <= Len(t) /\ Lower(t[i]) \in e.a
       IN  CASE e.k = "lit" -> IF here THEN MatchEnd(t, i + 1, pat, k + 1) ELSE 0
             [] e.k = "ws" -> IF i <= Len(t) /\ t[i] \in WS
                              THEN MatchEnd(t, SkipWs(t, i), pat, k + 1)
                              ELSE 0
             [] e.k = "opt" -> IF here /\ MatchEnd(t, i + 1, pat, k + 1) # 0
                               THEN MatchEnd(t, i + 1, pat, k + 1)
                               ELSE MatchEnd(t, i, pat, k + 1)

\* re.sub(pat, '', t): leftmost non-overlapping matches removed, one pass
RECURSIVE ReSub(_, _, _)
ReSub(t, pat, i) ==
  IF i > Len(t) THEN <<>>
  ELSE LET m == MatchEnd(t, i, pat, 1)
       IN  IF m # 0 THEN ReSub(t, pat, m) ELSE <<t[i]>> \o ReSub(t, pat, i + 1)

\* the index of the first '>' at or after i, or 0
RECURSIVE FirstGt(_, _)
FirstGt(t, i) ==
  IF i > Len(t) THEN 0 ELSE IF t[i] = ">" THEN i ELSE FirstGt(t, i + 1)

\* re.sub(r'<[^<>]+>', '', t): a tag must not hold another '<'
RECURSIVE StripTagsNotNested(_, _)
StripTagsNotNested(t, i) ==
  IF i > Len(t) THEN <<>>
  ELSE LET j == FirstGt(t, i + 1)
       IN  IF t[i] = "<" /\ j >= i + 2 /\ \A p \in (i + 1)..(j - 1) : t[p] # "<"
           THEN StripTagsNotNested(t, j + 1)
           ELSE <<t[i]>> \o StripTagsNotNested(t, i + 1)

\* re.sub(r'<[^>]+>', '', t)
RECURSIVE StripTags(_, _)
StripTags(t, i) ==
  IF i > Len(t) THEN <<>>
  ELSE LET j == FirstGt(t, i + 1)
       IN  IF t[i] = "<" /\ j >= i + 2
           THEN StripTags(t, j + 1)
           ELSE <<t[i]>> \o StripTags(t, i + 1)

\* r'javascript:'
ScriptPattern == <<Lit({"java"}), Lit({"script:"})>>

injection_patterns ==
  << <<Lit({"ignore"}), Ws1, Lit({"previous", "above", "all"}), Ws1,
       Lit({"instruction"}), Opt({"s"})>>,
     <<Lit({"disregard"}), Ws1, Lit({"previous", "above", "all"})>>,
     <<Lit({"forget"}), Ws1, Lit({"everything", "all", "previous"})>>,
     <<Lit({"you"}), Ws1, Lit({"are"}), Ws1, Lit({"now"})>>,
     <<Lit({"system"}), Ws1, Lit({"prompt"})>>,
     <<Lit({"reveal"}), Ws1, Lit({"your", "the"}), Ws1, Lit({"prompt"})>> >>

\* for pattern in injection_patterns: sanitized = re.sub(pattern, '', sanitized)
RECURSIVE StripInjections(_, _)
StripInjections(t, n) ==
  IF n > Len(injection_patterns) THEN t
  ELSE StripInjections(ReSub(t, injection_patterns[n], 1), n + 1)

\* ' '.join(t.split())
RECURSIVE JoinSplit(_, _, _)
JoinSplit(t, i, started) ==
  LET j == SkipWs(t, i)
  IN  IF j > Len(t) THEN <<>>
      ELSE (IF started /\ j > i THEN <<" ">> ELSE <<>>) \o <<t[j]>>
           \o JoinSplit(t, j + 1, TRUE)

\* t[:n]
Truncate(t, n) == SubSeq(t, 1, IF Len(t) < n THEN Len(t) ELSE n)

\* t.strip()
RECURSIVE RStrip(_)
RStrip(t) ==
  IF t # <<>> /\ t[Len(t)] \in WS THEN RStrip(SubSeq(t, 1, Len(t) - 1)) ELSE t

Strip(t) == LET j == SkipWs(t, 1) IN RStrip(SubSeq(t, j, Len(t)))

sanitize(user_input, max_length) ==
  LET noTags == StripTags(user_input, 1)
      noScript == ReSub(noTags, ScriptPattern, 1)
      noInject == StripInjections(noScript, 1)
      joined == JoinSplit(noInject, 1, FALSE)
  IN  Strip(Truncate(joined, max_length))

_sanitize_input(user_input) == sanitize(user_input, SanitizeMaxLength)

(***************************************************************************)
(* The topic classifier that gates chat, AIService._is_cooking_related.    *)
(***************************************************************************)
\* the symbols of the model's alphabet that hold a keyword of
\* cooking_keywords as a substring
ServiceKeywordSymbols ==
  {"cook", "pasta", "recipe", "rice", "chicken", "ingredients"}

\* the test turned round: any(text_lower in keyword for keyword in ...)
_is_cooking_related_reversed(text) ==
  \/ text = <<>>
  \/ Len(text) = 1 /\ Lower(text[1]) \in ServiceKeywordSymbols

_is_cooking_related(text) ==
  \E i \in 1..Len(text) : Lower(text[i]) \in ServiceKeywordSymbols

(***************************************************************************)
(* The tested classifier, is_cooking_related of app/utils/validators.py.   *)
(***************************************************************************)
\* the symbols of the model's alphabet that hold a keyword of its
\* cooking_keywords as a substring
ValidatorKeywordSymbols ==
  {"cook", "pasta", "recipe", "rice", "chicken", "ingredients",
   "prepare", "serve", "spice", "sauce"}

is_cooking_related(t) ==
  \E i \in 1..Len(t) : Lower(t[i]) \in ValidatorKeywordSymbols

DeclineMessage == <<"I can only assist with recipes and cooking-related questions.">>

(***************************************************************************)
(* The prompt builder.                                                     *)
(***************************************************************************)
_build_recipe_prompt(dish_name) ==
  <<"You are a professional chef AI assistant. Generate a detailed recipe for: ">>
    \o dish_name \o <<"Generate the recipe now as JSON only:">>

\* ", ".join(ingredients)
RECURSIVE CommaJoin(_)
CommaJoin(items) ==
  IF items = <<>> THEN <<>>
  ELSE IF Len(items) = 1 THEN items[1]
  ELSE items[1] \o <<", ">> \o CommaJoin(Tail(items))

_build_ingredient_prompt(ingredients) ==
  <<"You are a professional chef AI. Suggest dishes using these ingredients: ">>
    \o CommaJoin(ingredients) \o <<"Generate JSON only:">>

\* one entry of context: a {user, assistant} pair, a {role, content} message,
\* or a dict of another shape, which is skipped
FormatExchange(msg) ==
  CASE msg.shape = "pair" ->
         <<"User: ">> \o msg.user \o <<"\nAssistant: ">> \o msg.assistant
    [] msg.shape = "role" ->
         <<IF msg.role = "user" THEN "User: " ELSE "Assistant: ">> \o msg.content
    [] OTHER -> <<>>

RECURSIVE FormatContext(_)
FormatContext(msgs) ==
  IF msgs = <<>> THEN <<>>
  ELSE LET rest == FormatContext(Tail(msgs))
           known == msgs[1].shape \in {"pair", "role"}
       IN  IF ~known THEN rest
           ELSE IF \E i \in 2..Len(msgs) : msgs[i].shape \in {"pair", "role"}
                THEN FormatExchange(msgs[1]) \o <<"\n">> \o rest
                ELSE FormatExchange(msgs[1])

\* context[-3:]
LastThree(context) ==
  IF Len(context) <= 3 THEN context
  ELSE SubSeq(context, Len(context) - 2, Len(context))

_build_chat_prompt(message, context) ==
  <<"You are a cooking assistant. Answer ONLY cooking-related questions.">>
    \o FormatContext(LastThree(context))
    \o <<"User: ">> \o message \o <<"Assistant:">>

(***************************************************************************)
(* The response extractor and validator.  A reply of the model is a text   *)
(* over TextSymbols: braces, prose, and JSON members:                      *)
(*   "r"  the nine members of a recipe document, each well shaped          *)
(*   "w"  a member "ingredients" that is no list of {name, quantity}       *)
(*   "s"  the members suggested_dishes, selected_recipe (a well shaped     *)
(*        recipe document) and missing_optional_ingredients                *)
(* A brace in member position opens the object value of one more member.   *)
(***************************************************************************)
TextSymbols == {"{", "}", "p", "r", "w", "s"}
MemberSymbols == {"r", "w", "s"}

\* some longer replies: prose around a document, two documents, a nested object
LongerTexts ==
  { <<"p", "{", "r", "}", "p">>,
    <<"p", "{", "s", "}", "p">>,
    <<"{", "r", "}", "{", "s", "}">>,
    <<"{", "r", "s", "{", "w", "}", "}">>,
    <<"p", "}", "{", "w", "r", "}">>,
    <<"{", "s", "r", "w", "}">> }

ModelTexts == SeqsUpTo(TextSymbols, MaxTextLen) \cup LongerTexts

RECURSIVE FirstOf(_, _, _)
FirstOf(t, c, i) ==
  IF i > Len(t) THEN 0 ELSE IF t[i] = c THEN i ELSE FirstOf(t, c, i + 1)

RECURSIVE LastOf(_, _, _)
LastOf(t, c, i) ==
  IF i < 1 THEN 0 ELSE IF t[i] = c THEN i ELSE LastOf(t, c, i - 1)

\* re.search(r'\{.*\}', response, re.DOTALL): from the first '{' to the last '}'
JsonMatch(response) ==
  LET f == FirstOf(response, "{", 1)
      l == LastOf(response, "}", Len(response))
  IN  IF f # 0 /\ l > f
      THEN [found |-> TRUE, group |-> SubSeq(response, f, l)]
      ELSE [found |-> FALSE, group |-> <<>>]

EmptyDict == [recipe |-> "absent", suggestions |-> "absent", extra |-> FALSE]

\* dict assignment of the members a symbol stands for: a repeated key keeps
\* its last value
PutMember(d, m) ==
  CASE m = "r" -> [d EXCEPT !.recipe = "ok"]
    [] m = "w" -> [d EXCEPT !.recipe = "bad"]
    [] m = "s" -> [d EXCEPT !.suggestions = "ok"]

JsonFail == [ok |-> FALSE, next |-> 0, dict |-> EmptyDict]

\* the members of an object from position i up to its closing brace
RECURSIVE ParseMembers(_, _, _)
ParseMembers(s, i, acc) ==
  IF i > Len(s) THEN JsonFail
  ELSE CASE s[i] = "}" -> [ok |-> TRUE, next |-> i + 1, dict |-> acc]
         [] s[i] \in MemberSymbols -> ParseMembers(s, i + 1, PutMember(acc, s[i]))
         [] s[i] = "{" ->
              LET inner == ParseMembers(s, i + 1, EmptyDict)
              IN  IF inner.ok
                  THEN ParseMembers(s, inner.next, [acc EXCEPT !.extra = TRUE])
                  ELSE JsonFail
         [] OTHER -> JsonFail

\* json.loads(json_str): ok is FALSE for json.JSONDecodeError
JsonLoads(json_str) ==
  LET r == ParseMembers(json_str, 2, EmptyDict)
  IN  IF r.ok /\ r.next = Len(json_str) + 1
      THEN [ok |-> TRUE, dict |-> r.dict]
      ELSE [ok |-> FALSE, dict |-> EmptyDict]

\* AIService._extract_json: ok is FALSE for json.JSONDecodeError
_extract_json(response) ==
  IF ~JsonMatch(response).found
  THEN [ok |-> FALSE, dict |-> EmptyDict]
  ELSE JsonLoads(JsonMatch(response).group)

NoValue == [schema |-> "none"]

\* RecipeResponse(**d).model_dump(): ok is FALSE for ValidationError
RecipeResponse(d) ==
  IF d.recipe = "ok"
  THEN [ok |-> TRUE, value |-> [schema |-> "RecipeResponse"]]
  ELSE [ok |-> FALSE, value |-> NoValue]

\* IngredientResponse(**d).model_dump(): ok is FALSE for ValidationError
IngredientResponse(d) ==
  IF d.suggestions = "ok"
  THEN [ok |-> TRUE, value |-> [schema |-> "IngredientResponse"]]
  ELSE [ok |-> FALSE, value |-> NoValue]

\* the try block after the model call returned response: ok is FALSE when
\* json.JSONDecodeError or ValidationError is raised
ExtractAndValidate(operation, response) ==
  LET parsed == _extract_json(response)
  IN  IF ~parsed.ok THEN [ok |-> FALSE, value |-> NoValue]
      ELSE IF operation = "recipe" THEN RecipeResponse(parsed.dict)
      ELSE IngredientResponse(parsed.dict)

(***************************************************************************)
(* The generation client, AIService._generate_with_gemini.                 *)
(***************************************************************************)
ErrSymbols ==
  {"503", "429", "UNAVAILABLE", "RESOURCE_EXHAUSTED", "INVALID_ARGUMENT", "api_key"}

\* str(e) of the exceptions the model invocation can raise
UpstreamErrors == SeqsUpTo(ErrSymbols, MaxErrLen)

RetryableCodes == {"503", "429", "UNAVAILABLE", "RESOURCE_EXHAUSTED"}

\* any(code in error_str for code in [...])
is_retryable(error_str) == Contains(error_str, RetryableCodes)

\* a client that retries a retryable error on every attempt
ShouldRetryUncapped(error_str, n) == is_retryable(error_str)

\* a client that retries whatever the error is
ShouldRetryAnyError(error_str, n) == n < max_retries - 1

\* is_retryable and attempt < self.max_retries - 1
ShouldRetry(error_str, n) == is_retryable(error_str) /\ n < max_retries - 1

\* delay = self.retry_delay * (2 ** attempt)
BackoffDelay(n) == retry_delay * Pow2(n)

BusyMessage ==
  <<"The AI service is currently experiencing high demand. Please try again in a few moments.">>

\* the message of the ValueError raised once the client gives up
ClientErrorMessage(error_str) ==
  IF is_retryable(error_str) THEN BusyMessage
  ELSE <<"AI generation failed: ">> \o error_str

(***************************************************************************)
(* The orchestrator and the routes in front of it.                         *)
(***************************************************************************)
GenOps == {"recipe", "ingredients"}

\* an orchestrator that gives up one attempt early
LastOuterAttemptEarly(a) == a = max_retries - 2

\* if attempt == self.max_retries - 1: raise ValueError(...)
LastOuterAttempt(a) == a = max_retries - 1

\* the message raised inside the except block on the last attempt
ExhaustedMessage(operation) ==
  IF operation = "recipe"
  THEN <<"Failed to generate valid recipe after retries">>
  ELSE <<"Failed to generate suggestions">>

\* the message raised after the for loop
AfterLoopMessage(operation) ==
  IF operation = "recipe"
  THEN <<"Failed to generate recipe">>
  ELSE <<"Failed to generate suggestions">>

\* an except clause that names the common base class of the two
OrchestratorCatchesValueError(class) ==
  class \in {"JSONDecodeError", "ValidationError", "ValueError"}

\* except (json.JSONDecodeError, ValidationError) as e
OrchestratorCatches(class) == class \in {"JSONDecodeError", "ValidationError"}

\* the exception the try block raises for a reply that does not validate
FailureOf(response) ==
  IF ~JsonMatch(response).found
  THEN [class |-> "JSONDecodeError", msg |-> "No JSON found in response"]
  ELSE IF ~_extract_json(response).ok
  THEN [class |-> "JSONDecodeError", msg |-> "json.loads"]
  ELSE [class |-> "ValidationError", msg |-> "pydantic"]

\* a try block that returns the parsed dict without validating it
RepliesUnvalidated ==
  [operation \in GenOps \cup {"chat"} |->
    { [text |-> t,
       validated |-> [ok |-> _extract_json(t).ok,
                      value |-> IF _extract_json(t).ok
                                THEN [schema |-> "dict"] ELSE NoValue],
       error |-> FailureOf(t)] : t \in ModelTexts }]

\* the replies the model can give, each with what the try block of the
\* operation does with it (computed once per reply)
Replies ==
  [operation \in GenOps \cup {"chat"} |->
    { [text |-> t,
       validated |-> ExtractAndValidate(operation, t),
       error |-> FailureOf(t)] : t \in ModelTexts }]

NoOutcome == [kind |-> "none", value |-> NoValue, text |-> <<>>, raisedBy |-> "none"]
Returned(v) == [kind |-> "value", value |-> v, text |-> <<>>, raisedBy |-> "none"]
ReturnedText(t) == [kind |-> "text", value |-> NoValue, text |-> t, raisedBy |-> "none"]
Raised(msg, by) == [kind |-> "error", value |-> NoValue, text |-> msg, raisedBy |-> by]

NoHttp == [status |-> 0, value |-> NoValue, text |-> <<>>]

\* the route: the service's value as the 200 body, a ValueError as
\* HTTPException(status_code=400, detail=str(e))
RouteResponse(o) ==
  CASE o.kind = "value" -> [status |-> 200, value |-> o.value, text |-> <<>>]
    [] o.kind = "text" -> [status |-> 200, value |-> NoValue, text |-> o.text]
    [] o.kind = "error" -> [status |-> 400, value |-> NoValue, text |-> o.text]
    [] OTHER -> NoHttp

Unauthenticated ==
  [status |-> 401, value |-> NoValue, text |-> <<"Invalid authentication credentials">>]

\* requests of the model: user texts, ingredient lists, chat contexts
UserTexts ==
  { <<"<", "b", ">", "COOK", " ", "\n", "rice">>,
    <<"you", " ", "are", " ", "now", "weather">>,
    <<"<", "rice", ">">> }

IngredientLists ==
  { <<t>> : t \in UserTexts } \cup { << <<"rice">>, <<"<", "b", ">", "egg">> >> }

ChatContexts ==
  { <<>>,
    <<[shape |-> "pair", user |-> <<"system", " ", "prompt">>, assistant |-> <<"ok">>],
      [shape |-> "other"],
      [shape |-> "role", role |-> "user", content |-> <<"<", "b", ">">>]>> }

VARIABLES
  op,        \* the operation requested: "none", "recipe", "ingredients", "chat"
  pc,        \* "idle", "invoke" (a model call is outstanding), "sleep", "done"
  prompt,    \* system_prompt
  attempt,   \* the orchestrator's loop index
  gattempt,  \* the client's loop index
  sent,      \* the prompts sent to the model so far, in order
  slept,     \* the delays slept in the current client call, in order
  nsleeps,   \* the sleeps of the request
  warnings,  \* logger.warning of the orchestrator: the failed attempts
  errors,    \* logger.error of the client: the failed invocations
  response,  \* the model's reply handed to the caller or validated for it
  outcome,   \* what the service returned or raised
  http,      \* the HTTP response
  users,     \* the rows of the users table
  nextId,    \* the next value of the primary key
  now,       \* datetime.utcnow(), in minutes
  areq,      \* per client: the authentication request being served
  recipes,   \* the rows of the recipes table
  nextRecipeId, \* the next value of its primary key
  sresp,     \* the last response of a saved-recipes route
  text,      \* a text handed to the sanitizer
  limit,     \* the max_length it is sanitized with
  passes,    \* the results of sanitizing it once, twice
  tasks      \* per request in flight: the task that the event loop runs for it

genVars ==
  <<op, pc, prompt, attempt, gattempt, sent, slept, nsleeps, warnings, errors,
    response, outcome, http>>

authVars == <<users, nextId, now, areq>>

savedVars == <<recipes, nextRecipeId, sresp>>

sanVars == <<text, limit, passes>>

loopVars == <<tasks>>

vars == <<genVars, authVars, savedVars, sanVars, loopVars>>

\* what the AI pipeline, the authentication flows and the saved-recipes
\* routes leave alone
nonGenVars == <<authVars, savedVars, sanVars, loopVars>>
nonAuthVars == <<genVars, savedVars, sanVars, loopVars>>
nonSavedVars == <<genVars, authVars, sanVars, loopVars>>
nonSanVars == <<genVars, authVars, savedVars, loopVars>>
nonLoopVars == <<genVars, authVars, savedVars, sanVars>>

GenInit ==
  /\ op = "none"
  /\ pc = "idle"
  /\ prompt = <<>>
  /\ attempt = 0
  /\ gattempt = 0
  /\ sent = <<>>
  /\ slept = <<>>
  /\ nsleeps = 0
  /\ warnings = <<>>
  /\ errors = <<>>
  /\ response = <<>>
  /\ outcome = NoOutcome
  /\ http = NoHttp

\* the first pass of the orchestrator's loop: the client is called and invokes the model
FirstCall(operation, system_prompt) ==
  /\ op' = operation
  /\ prompt' = system_prompt
  /\ pc' = "invoke"
  /\ sent' = <<system_prompt>>
  /\ UNCHANGED <<attempt, gattempt, slept, nsleeps, warnings, errors, response,
                 outcome, http>>

\* the service returns or raises and the route answers
Finish(o) ==
  /\ pc' = "done"
  /\ outcome' = o
  /\ http' = RouteResponse(o)

\* POST /recipe/generate-recipe
GenerateRecipe(dish_name) ==
  /\ pc = "idle"
  /\ UNCHANGED nonGenVars
  /\ FirstCall("recipe", _build_recipe_prompt(_sanitize_input(dish_name)))

\* POST /recipe/generate-from-ingredients
GenerateFromIngredients(ingredients) ==
  /\ pc = "idle"
  /\ UNCHANGED nonGenVars
  /\ FirstCall("ingredients",
       _build_ingredient_prompt([i \in 1..Len(ingredients) |->
                                   _sanitize_input(ingredients[i])]))

\* POST /chat/ : get_current_user, then AIService.chat_response
Chat(authenticated, user_message, context) ==
  /\ pc = "idle"
  /\ UNCHANGED nonGenVars
  /\ IF ~authenticated
     THEN /\ op' = "chat"
          /\ pc' = "done"
          /\ http' = Unauthenticated
          /\ UNCHANGED <<prompt, attempt, gattempt, sent, slept, nsleeps, warnings,
                         errors, response, outcome>>
     ELSE IF ~_is_cooking_related(_sanitize_input(user_message))
     THEN /\ op' = "chat"
          /\ Finish(ReturnedText(DeclineMessage))
          /\ UNCHANGED <<prompt, attempt, gattempt, sent, slept, nsleeps, warnings,
                         errors, response>>
     ELSE FirstCall("chat", _build_chat_prompt(_sanitize_input(user_message), context))

\* the except block of the orchestrator's loop: the attempt is logged, and
\* the loop continues with a new client call unless this was the last pass
FailedAttempt(e) ==
  /\ warnings' = Append(warnings, [attempt |-> attempt + 1, error |-> e])
  /\ IF LastOuterAttempt(attempt)
     THEN /\ Finish(Raised(ExhaustedMessage(op), op))
          /\ UNCHANGED <<attempt, gattempt, sent, slept>>
     ELSE IF attempt + 1 < max_retries
     THEN /\ attempt' = attempt + 1
          /\ gattempt' = 0
          /\ slept' = <<>>
          /\ sent' = Append(sent, prompt)
          /\ UNCHANGED <<pc, outcome, http>>
     ELSE /\ Finish(Raised(AfterLoopMessage(op), op))
          /\ UNCHANGED <<attempt, gattempt, sent, slept>>

\* the model invocation returns response.text = reply.text
ModelReturns(reply) ==
  /\ IF op = "chat"
     THEN /\ response' = reply.text
          /\ Finish(ReturnedText(reply.text))
          /\ UNCHANGED <<attempt, gattempt, sent, slept, warnings>>
     ELSE IF reply.validated.ok
     THEN /\ response' = reply.text
          /\ Finish(Returned(reply.validated.value))
          /\ UNCHANGED <<attempt, gattempt, sent, slept, warnings>>
     ELSE IF OrchestratorCatches(reply.error.class)
     THEN /\ FailedAttempt(reply.error)
          /\ response' = <<>>
     ELSE /\ Finish(Raised(<<reply.error.msg>>, op))
          /\ response' = <<>>
          /\ UNCHANGED <<attempt, gattempt, sent, slept, warnings>>
  /\ UNCHANGED <<op, prompt, nsleeps, errors>>

ModelReply ==
  /\ pc = "invoke"
  /\ UNCHANGED nonGenVars
  /\ \E reply \in Replies[op] : ModelReturns(reply)

\* the model invocation raises an exception whose str() is error_str
ModelRaises(error_str) ==
  /\ pc = "invoke"
  /\ UNCHANGED nonGenVars
  /\ errors' = Append(errors, [attempt |-> gattempt + 1,
                               retryable |-> is_retryable(error_str)])
  /\ IF ShouldRetry(error_str, gattempt)
     THEN /\ pc' = "sleep"
          /\ slept' = Append(slept, BackoffDelay(gattempt))
          /\ nsleeps' = nsleeps + 1
          /\ UNCHANGED <<attempt, gattempt, sent, warnings, outcome, http>>
     ELSE IF op \in GenOps /\ OrchestratorCatches("ValueError")
     THEN /\ FailedAttempt([class |-> "ValueError", msg |-> "client"])
          /\ UNCHANGED nsleeps
     ELSE /\ Finish(Raised(ClientErrorMessage(error_str), "_generate_with_gemini"))
          /\ UNCHANGED <<attempt, gattempt, sent, slept, nsleeps, warnings>>
  /\ UNCHANGED <<op, prompt, response>>

\* asyncio.sleep(delay) is over: continue, the next pass invokes the model again
SleepElapses ==
  /\ pc = "sleep"
  /\ UNCHANGED nonGenVars
  /\ pc' = "invoke"
  /\ gattempt' = gattempt + 1
  /\ sent' = Append(sent, prompt)
  /\ UNCHANGED <<op, prompt, attempt, slept, nsleeps, warnings, errors, response,
                 outcome, http>>

GenNext ==
  \/ \E dish_name \in UserTexts : GenerateRecipe(dish_name)
  \/ \E ingredients \in IngredientLists : GenerateFromIngredients(ingredients)
  \/ \E authenticated \in BOOLEAN, user_message \in UserTexts, context \in ChatContexts :
       Chat(authenticated, user_message, context)
  \/ ModelReply
  \/ \E error_str \in UpstreamErrors : ModelRaises(error_str)
  \/ SleepElapses

(***************************************************************************)
(* The users table and the authentication flows of                         *)
(* app/services/auth_service.py.  Requests are served concurrently: each   *)
(* client runs one request at a time, and the statements that reach the    *)
(* database (a lookup, an insert) of different requests interleave.        *)
(***************************************************************************)
\* most rows of the users table
MaxUsers == 3
\* latest instant of the clock, in minutes
MaxClock == 1

ACCESS_TOKEN_EXPIRE_MINUTES == 30

Clients == {"c1", "c2"}
Emails == {"a@x", "b@x"}
Passwords == {"pw1", "pw2"}
Names == {"Ann"}
GoogleIds == {"g1", "g2"}

\* password_hash of a row that has none
NoHash == [digest |-> NULL]

\* a one-way hash: the digest stands for what only the password yields
hash_password(password) == [digest |-> password]

verify_password(plain_password, hashed_password) ==
  hashed_password # NoHash /\ hashed_password.digest = plain_password

\* User(**user_data) as inserted: the primary key and the column defaults
User(user_data, id) ==
  [id |-> id, email |-> user_data.email, name |-> user_data.name,
   google_id |-> user_data.google_id, password_hash |-> user_data.password_hash,
   avatar |-> "chef"]

\* db.query(User).filter(User.email == email): first() returns one of these
get_by_email_wrong_column(email) == {u \in users : u.google_id = email}

get_by_email(email) == {u \in users : u.email = email}

\* db.query(User).filter(User.google_id == google_id); a google_id of None
\* is compared with IS NULL
get_by_google_id_wrong_column(google_id) == {u \in users : u.email = google_id}

get_by_google_id(google_id) == {u \in users : u.google_id = google_id}

\* the constraints of the table that db.commit() enforces
IntegrityErrorWithoutUniqueEmail(user_data) ==
  \/ user_data.email = NULL
  \/ user_data.name = NULL
  \/ /\ user_data.google_id # NULL
     /\ \E u \in users : u.google_id = user_data.google_id

IntegrityError(user_data) ==
  \/ user_data.email = NULL
  \/ user_data.name = NULL
  \/ \E u \in users : u.email = user_data.email
  \/ /\ user_data.google_id # NULL
     /\ \E u \in users : u.google_id = user_data.google_id

NoToken == [sub |-> NULL, email |-> NULL, user_id |-> 0, exp |-> 0]

NoUser == [id |-> 0, email |-> NULL, name |-> NULL]

NoResult == [status |-> 0, detail |-> "", access_token |-> NoToken, user |-> NoUser]

\* the claims that jwt.encode signs for a token created at the instant utcnow
AccessTokenClaims(user, utcnow) ==
  [sub |-> user.email, email |-> user.email, user_id |-> user.id,
   exp |-> utcnow + ACCESS_TOKEN_EXPIRE_MINUTES]

_create_access_token(user) == AccessTokenClaims(user, now)

UserResponse(user) == [id |-> user.id, email |-> user.email, name |-> user.name]

TokenResponse(user) ==
  [status |-> 200, detail |-> "", access_token |-> _create_access_token(user),
   user |-> UserResponse(user)]

\* raise HTTPException(status_code=400, detail=str(e))
BadRequest(detail) ==
  [status |-> 400, detail |-> detail, access_token |-> NoToken, user |-> NoUser]

DuplicateEmail == "Email already registered"
SignupFailed == "Signup failed"
InvalidCredential == "Invalid email or password"
WrongAuthMethod == "This account uses Google Sign-In. Please login with Google."
GoogleTokenRejected == "Authentication failed: Invalid token"
GoogleEmailMissing == "Authentication failed: Email not found in Google token"
AuthenticationFailed == "Authentication failed"

IdleRequest ==
  [kind |-> "none", pc |-> "idle", email |-> NULL, password |-> NULL,
   name |-> NULL, google_id |-> NULL, result |-> NoResult]

AuthInit ==
  /\ users = {}
  /\ nextId = 1
  /\ now = 0
  /\ areq = [c \in Clients |-> IdleRequest]

\* the request of client c ends with this response
Respond(c, request, result) ==
  areq' = [areq EXCEPT ![c] = [request EXCEPT !.pc = "done", !.result = result]]

\* user_repo.create: the row is inserted, or the commit raises
Create(c, user_data, failure) ==
  IF IntegrityError(user_data)
  THEN /\ Respond(c, areq[c], BadRequest(failure))
       /\ UNCHANGED <<users, nextId>>
  ELSE /\ Cardinality(users) < MaxUsers
       /\ users' = users \cup {User(user_data, nextId)}
       /\ nextId' = nextId + 1
       /\ Respond(c, areq[c], TokenResponse(User(user_data, nextId)))

\* signup up to the lookup of the email
SignupCheck(c, email, password, name) ==
  /\ areq[c].pc = "idle"
  /\ LET request == [IdleRequest EXCEPT !.kind = "signup", !.email = email,
                                        !.password = password, !.name = name]
     IN  IF get_by_email(email) # {}
         THEN Respond(c, request, BadRequest(DuplicateEmail))
         ELSE areq' = [areq EXCEPT ![c] = [request EXCEPT !.pc = "create"]]
  /\ UNCHANGED <<users, nextId, now, nonAuthVars>>

\* signup from the hashing of the password on
SignupCreate(c) ==
  /\ areq[c].pc = "create"
  /\ areq[c].kind = "signup"
  /\ Create(c, [email |-> areq[c].email, name |-> areq[c].name,
                password_hash |-> hash_password(areq[c].password),
                google_id |-> NULL],
            SignupFailed)
  /\ UNCHANGED <<now, nonAuthVars>>

\* the message of the first check that fails, "" when none does
LoginCheckPasswordFirst(found, has_password, is_valid) ==
  IF ~found THEN InvalidCredential
  ELSE IF ~is_valid THEN InvalidCredential
  ELSE IF ~has_password THEN WrongAuthMethod
  ELSE ""

LoginCheck(found, has_password, is_valid) ==
  IF ~found THEN InvalidCredential
  ELSE IF ~has_password THEN WrongAuthMethod
  ELSE IF ~is_valid THEN InvalidCredential
  ELSE ""

LoginResult(user, password) ==
  LET failure == LoginCheck(TRUE, user.password_hash # NoHash,
                            verify_password(password, user.password_hash))
  IN  IF failure = "" THEN TokenResponse(user) ELSE BadRequest(failure)

Login(c, email, password) ==
  /\ areq[c].pc = "idle"
  /\ LET request == [IdleRequest EXCEPT !.kind = "login", !.email = email,
                                        !.password = password]
     IN  IF get_by_email(email) = {}
         THEN Respond(c, request, BadRequest(LoginCheck(FALSE, FALSE, FALSE)))
         ELSE \E user \in get_by_email(email) :
                Respond(c, request, LoginResult(user, password))
  /\ UNCHANGED <<users, nextId, now, nonAuthVars>>

\* id_token.verify_oauth2_token raises
GoogleRejects(c) ==
  /\ areq[c].pc = "idle"
  /\ Respond(c, [IdleRequest EXCEPT !.kind = "google"], BadRequest(GoogleTokenRejected))
  /\ UNCHANGED <<users, nextId, now, nonAuthVars>>

\* authenticate_google up to the lookup of the google id; email, name and
\* google_id are idinfo.get('email'), idinfo.get('name'), idinfo.get('sub')
GoogleCheck(c, email, name, google_id) ==
  /\ areq[c].pc = "idle"
  /\ LET request == [IdleRequest EXCEPT !.kind = "google", !.email = email,
                                        !.name = name, !.google_id = google_id]
     IN  IF email = NULL
         THEN Respond(c, request, BadRequest(GoogleEmailMissing))
         ELSE IF get_by_google_id(google_id) # {}
         THEN \E user \in get_by_google_id(google_id) :
                Respond(c, request, TokenResponse(user))
         ELSE areq' = [areq EXCEPT ![c] = [request EXCEPT !.pc = "create"]]
  /\ UNCHANGED <<users, nextId, now, nonAuthVars>>

\* authenticate_google from the creation of the user on
GoogleCreate(c) ==
  /\ areq[c].pc = "create"
  /\ areq[c].kind = "google"
  /\ Create(c, [email |-> areq[c].email, name |-> areq[c].name,
                password_hash |-> NoHash, google_id |-> areq[c].google_id],
            AuthenticationFailed)
  /\ UNCHANGED <<now, nonAuthVars>>

\* the response is sent; the client is free for its next request
Deliver(c) ==
  /\ areq[c].pc = "done"
  /\ areq' = [areq EXCEPT ![c] = IdleRequest]
  /\ UNCHANGED <<users, nextId, now, nonAuthVars>>

Tick ==
  /\ now < MaxClock
  /\ now' = now + 1
  /\ UNCHANGED <<users, nextId, areq, nonAuthVars>>

AuthNext ==
  \/ \E c \in Clients, email \in Emails, password \in Passwords, name \in Names :
       SignupCheck(c, email, password, name)
  \/ \E c \in Clients : SignupCreate(c)
  \/ \E c \in Clients, email \in Emails, password \in Passwords : Login(c, email, password)
  \/ \E c \in Clients : GoogleRejects(c)
  \/ \E c \in Clients, email \in Emails \cup {NULL}, name \in Names \cup {NULL},
        google_id \in GoogleIds \cup {NULL} : GoogleCheck(c, email, name, google_id)
  \/ \E c \in Clients : GoogleCreate(c)
  \/ \E c \in Clients : Deliver(c)
  \/ Tick

(***************************************************************************)
(* The sanitizer applied to texts of its own: sanitize_input of            *)
(* app/utils/validators.py, which AIService._sanitize_input repeats with   *)
(* max_length fixed.  Lengths count symbols.                               *)
(***************************************************************************)
\* longest text of the exhaustive part, in symbols
MaxInputLen == 4

SanitizerSymbols == {"<", ">", "b", " ", "java", "script:"}

\* texts around the injection phrasings and the tags
InjectionTexts ==
  { <<"ignore", " ", "all", " ", "instruction", "s">>,
    <<"Please", " ", "ignore", " ", "\n", "previous", " ", "instruction", " ", "now">>,
    <<"YOU", " ", " ", "are", " ", "now", " ", "b">>,
    <<"SYSTEM", "\n", "prompt">>,
    <<"reveal", " ", "the", " ", "prompt", " ", "b">>,
    <<"forget", " ", "system", " ", "prompt", "all">>,
    <<"system", "system", " ", "prompt", " ", "prompt">>,
    <<"disregard", " ", "you", " ", "are", " ", "now", " ", "above">>,
    <<"<", "script", ">", "alert", "<", "/", "script", ">", "Hello">>,
    <<"<", "scr", "<", "b", ">", "ipt", ">", "x">>,
    <<"b", " ", "<", " ", "b", " ", ">", " ", "b">> }

SanitizerTexts == SeqsUpTo(SanitizerSymbols, MaxInputLen) \cup InjectionTexts

\* the values of max_length
MaxLengths == {2, 5, SanitizeMaxLength}

SanInit ==
  /\ text \in SanitizerTexts
  /\ limit \in MaxLengths
  /\ passes = <<>>

\* sanitize_input(user_input, max_length)
SanitizeInput ==
  /\ passes = <<>>
  /\ passes' = <<sanitize(text, limit)>>
  /\ UNCHANGED <<text, limit, nonSanVars>>

\* sanitize_input applied to its own result
SanitizeAgain ==
  /\ Len(passes) = 1
  /\ passes' = Append(passes, sanitize(passes[1], limit))
  /\ UNCHANGED <<text, limit, nonSanVars>>

SanNext == SanitizeInput \/ SanitizeAgain

\* no text is at the sanitizer
NoSanitizing ==
  /\ text = <<>>
  /\ limit = SanitizeMaxLength
  /\ passes = <<>>

(***************************************************************************)
(* The event loop under the routes: one thread runs the task of each       *)
(* request up to its next await.  generate_content is called without       *)
(* await, so the task that is in it keeps the thread until it returns or   *)
(* raises; await asyncio.sleep(delay) gives the thread back.               *)
(***************************************************************************)
Requests == {"r1", "r2", "r3"}

\* "generate": a request that calls _generate_with_gemini;
\* "health": GET /health, which awaits nothing
RequestKinds == {"generate", "health"}

NoTask == [kind |-> "none", pc |-> "none", attempt |-> 0, slept |-> <<>>]

PendingTask(kind) == [NoTask EXCEPT !.kind = kind, !.pc = "pending"]

\* no request is in flight
LoopIdle == tasks = [r \in Requests |-> NoTask]

LoopInit == tasks \in [Requests -> {PendingTask(kind) : kind \in RequestKinds}]

\* the thread is free: no task is inside the synchronous generate_content
ThreadFree == \A r \in Requests : tasks[r].pc # "calling"

\* the loop starts the task of request r, which runs to its first wait
Serve(r) ==
  /\ tasks[r].pc = "pending"
  /\ ThreadFree
  /\ tasks' = [tasks EXCEPT ![r].pc =
                 IF tasks[r].kind = "health" THEN "done" ELSE "calling"]
  /\ UNCHANGED nonLoopVars

\* generate_content returns and the task runs to its end
CallReturns(r) ==
  /\ tasks[r].pc = "calling"
  /\ tasks' = [tasks EXCEPT ![r].pc = "done"]
  /\ UNCHANGED nonLoopVars

\* generate_content raises: the task awaits the backoff sleep or raises
CallRaises(r, error_str) ==
  /\ tasks[r].pc = "calling"
  /\ tasks' = [tasks EXCEPT ![r] =
       IF ShouldRetry(error_str, tasks[r].attempt)
       THEN [@ EXCEPT !.pc = "sleeping",
                      !.slept = Append(@, BackoffDelay(tasks[r].attempt))]
       ELSE [@ EXCEPT !.pc = "done"]]
  /\ UNCHANGED nonLoopVars

\* the sleep is over and the loop resumes the task, which calls the model again
Resume(r) ==
  /\ tasks[r].pc = "sleeping"
  /\ ThreadFree
  /\ tasks' = [tasks EXCEPT ![r].pc = "calling", ![r].attempt = @ + 1]
  /\ UNCHANGED nonLoopVars

LoopNext ==
  \/ \E r \in Requests : Serve(r)
  \/ \E r \in Requests : CallReturns(r)
  \/ \E r \in Requests, error_str \in UpstreamErrors : CallRaises(r, error_str)
  \/ \E r \in Requests : Resume(r)

(***************************************************************************)
(* The bearer-token dependency, app/dependencies.py, and the saved-recipes *)
(* routes of app/routers/saved.py over the recipes table.  A recipe        *)
(* document is a function from its keys to their values.                   *)
(***************************************************************************)
\* most rows the recipes table ever gets
MaxRecipes == 2

\* request bodies of save-recipe: recipe_data is any object
RecipeDocs ==
  { [title |-> "soup"], [title |-> "soup", id |-> 99] }

\* a user as signup registers it
RegisteredUser(email, id) ==
  User([email |-> email, name |-> "Ann", google_id |-> NULL,
        password_hash |-> hash_password("pw1")], id)

RegisteredUsers == {RegisteredUser("a@x", 1), RegisteredUser("b@x", 2)}

\* the tokens a request can carry: the claims the service signed for a user at
\* some instant, with the signature intact or not
BearerTokens ==
  { [signed |-> signed, claims |-> AccessTokenClaims(u, issued)] :
      signed \in BOOLEAN, u \in RegisteredUsers, issued \in 0..MaxClock }

\* the token was created at an instant up to now
Issued(token) == token.claims.exp <= now + ACCESS_TOKEN_EXPIRE_MINUTES

\* jwt.decode: the signature and the expiry are checked
verify_token(token) ==
  IF token.signed /\ token.claims.exp >= now
  THEN [ok |-> TRUE, payload |-> token.claims]
  ELSE [ok |-> FALSE, payload |-> NoToken]

\* the dependency with the check of the payload left out
get_current_user_unverified(token) ==
  IF get_by_email(token.claims.email) = {}
  THEN [ok |-> FALSE, detail |-> "User not found", found |-> {}]
  ELSE [ok |-> TRUE, detail |-> "", found |-> get_by_email(token.claims.email)]

\* found: the rows of which first() returns one
get_current_user(token) ==
  LET payload == verify_token(token)
  IN  IF ~payload.ok
      THEN [ok |-> FALSE, detail |-> "Invalid authentication credentials", found |-> {}]
      ELSE IF get_by_email(payload.payload.email) = {}
      THEN [ok |-> FALSE, detail |-> "User not found", found |-> {}]
      ELSE [ok |-> TRUE, detail |-> "", found |-> get_by_email(payload.payload.email)]

NoSavedResponse ==
  [route |-> "none", status |-> 0, detail |-> "", user_id |-> 0, id |-> 0,
   body |-> <<>>]

\* HTTPException(status_code=401) of get_current_user
Unauthorized(route, detail) ==
  [NoSavedResponse EXCEPT !.route = route, !.status = 401, !.detail = detail]

\* Recipe(**recipe_data) as inserted
Recipe(user_id, recipe_json, id) ==
  [id |-> id, user_id |-> user_id, recipe_json |-> recipe_json, created_at |-> now]

\* {**a, **b}: the keys of b win
DictMerge(a, b) ==
  [k \in DOMAIN a \cup DOMAIN b |-> IF k \in DOMAIN b THEN b[k] ELSE a[k]]

\* {"id": recipe.id, **recipe.recipe_json}
ListedRecipe(recipe) == DictMerge([id |-> recipe.id], recipe.recipe_json)

\* RecipeRepository.get_by_user_id: the orders that created_at desc allows
get_by_user_id(user_id) ==
  LET rows == {r \in recipes : r.user_id = user_id}
      n == Cardinality(rows)
  IN  { list \in [1..n -> rows] :
          /\ \A i, j \in 1..n : i # j => list[i] # list[j]
          /\ \A i, j \in 1..n : i < j => list[i].created_at >= list[j].created_at }

\* the row that RecipeRepository.delete looks up, with the owner not compared
OwnedRecipesAnyOwner(recipe_id, user_id) == {r \in recipes : r.id = recipe_id}

\* the rows that RecipeRepository.delete looks up
OwnedRecipes(recipe_id, user_id) ==
  {r \in recipes : r.id = recipe_id /\ r.user_id = user_id}

StoreInit ==
  /\ recipes = {}
  /\ nextRecipeId = 1
  /\ sresp = NoSavedResponse

\* POST /saved/save-recipe
SaveRecipe(token, recipe_data) ==
  /\ Issued(token)
  /\ LET auth == get_current_user(token)
     IN  IF ~auth.ok
         THEN /\ sresp' = Unauthorized("save", auth.detail)
              /\ UNCHANGED <<recipes, nextRecipeId>>
         ELSE \E current_user \in auth.found :
                /\ nextRecipeId <= MaxRecipes
                /\ recipes' = recipes \cup
                     {Recipe(current_user.id, recipe_data, nextRecipeId)}
                /\ nextRecipeId' = nextRecipeId + 1
                /\ sresp' = [NoSavedResponse EXCEPT
                               !.route = "save", !.status = 200,
                               !.detail = "Recipe saved successfully",
                               !.user_id = current_user.id, !.id = nextRecipeId]
  /\ UNCHANGED nonSavedVars

\* GET /saved/recipes
GetSavedRecipes(token) ==
  /\ Issued(token)
  /\ LET auth == get_current_user(token)
     IN  IF ~auth.ok
         THEN sresp' = Unauthorized("list", auth.detail)
         ELSE \E current_user \in auth.found :
              \E list \in get_by_user_id(current_user.id) :
                sresp' = [NoSavedResponse EXCEPT
                            !.route = "list", !.status = 200,
                            !.user_id = current_user.id,
                            !.body = [i \in 1..Len(list) |-> ListedRecipe(list[i])]]
  /\ UNCHANGED <<recipes, nextRecipeId, nonSavedVars>>

\* DELETE /saved/recipes/{recipe_id}
DeleteRecipe(token, recipe_id) ==
  /\ Issued(token)
  /\ LET auth == get_current_user(token)
     IN  IF ~auth.ok
         THEN /\ sresp' = Unauthorized("delete", auth.detail)
              /\ UNCHANGED recipes
         ELSE \E current_user \in auth.found :
                LET owned == OwnedRecipes(recipe_id, current_user.id)
                    answer == [NoSavedResponse EXCEPT
                                 !.route = "delete", !.user_id = current_user.id,
                                 !.id = recipe_id]
                IN  IF owned # {}
                    THEN /\ \E recipe \in owned : recipes' = recipes \ {recipe}
                         /\ sresp' = [answer EXCEPT
                                        !.status = 200,
                                        !.detail = "Recipe deleted successfully"]
                    ELSE /\ sresp' = [answer EXCEPT
                                        !.status = 404, !.detail = "Recipe not found"]
                         /\ UNCHANGED recipes
  /\ UNCHANGED <<nextRecipeId, nonSavedVars>>

\* ChatRequest.context left out of the body
NoContext == <<>>

\* POST /chat/ behind the dependency, up to the call of the model
ChatRoute(token, user_message, context) ==
  /\ Issued(token)
  /\ Chat(get_current_user(token).ok, user_message, context)

\* HTTPBearer(auto_error=True) refuses a request that has no Authorization
\* header before the dependency runs: with 403 in the older releases of the
\* framework and with 401 in the newer ones
NotAuthenticatedStatuses == {401, 403}

\* HTTPException(detail="Not authenticated") of HTTPBearer
NotAuthenticated(status_code) ==
  [status |-> status_code, value |-> NoValue, text |-> <<"Not authenticated">>]

\* POST /chat/ with no Authorization header
ChatWithoutHeader(user_message, context, status_code) ==
  /\ pc = "idle"
  /\ op' = "chat"
  /\ pc' = "done"
  /\ http' = NotAuthenticated(status_code)
  /\ UNCHANGED <<prompt, attempt, gattempt, sent, slept, nsleeps, warnings,
                 errors, response, outcome>>
  /\ UNCHANGED nonGenVars

\* a request to a saved-recipes route with no Authorization header
SavedWithoutHeader(route, status_code) ==
  /\ sresp' = [NoSavedResponse EXCEPT !.route = route, !.status = status_code,
                                      !.detail = "Not authenticated"]
  /\ UNCHANGED <<recipes, nextRecipeId, nonSavedVars>>

\* time passes until the tokens issued so far have expired
TokenLifetimeElapses ==
  /\ now <= MaxClock
  /\ now' = now + ACCESS_TOKEN_EXPIRE_MINUTES + 1
  /\ UNCHANGED <<users, nextId, areq, nonAuthVars>>

SavedNext ==
  \/ \E token \in BearerTokens, recipe_data \in RecipeDocs : SaveRecipe(token, recipe_data)
  \/ \E token \in BearerTokens : GetSavedRecipes(token)
  \/ \E token \in BearerTokens, recipe_id \in 1..MaxRecipes : DeleteRecipe(token, recipe_id)
  \/ \E token \in BearerTokens, user_message \in UserTexts :
       ChatRoute(token, user_message, NoContext)
  \/ \E user_message \in UserTexts, status_code \in NotAuthenticatedStatuses :
       ChatWithoutHeader(user_message, NoContext, status_code)
  \/ \E route \in {"save", "list", "delete"}, status_code \in NotAuthenticatedStatuses :
       SavedWithoutHeader(route, status_code)
  \/ TokenLifetimeElapses

(***************************************************************************)
(* The operations of RecipeRepository, called on behalf of a user: the     *)
(* answer is kept in sresp, user_id being the caller and body the rows     *)
(* that were returned.                                                     *)
(***************************************************************************)
UserIds == {u.id : u \in RegisteredUsers}

\* a user with this id is in the users table
IsUser(user_id) == \E u \in users : u.id = user_id

\* RecipeRepository.get_by_id: the rows of which first() returns one
get_by_id(recipe_id) == {r \in recipes : r.id = recipe_id}

RepoAnswer(operation, caller) ==
  [NoSavedResponse EXCEPT !.route = operation, !.user_id = caller]

\* RecipeRepository.get_by_id(recipe_id)
RepoGetById(caller, recipe_id) ==
  /\ IsUser(caller)
  /\ \/ /\ get_by_id(recipe_id) = {}
        /\ sresp' = [RepoAnswer("get_by_id", caller) EXCEPT !.id = recipe_id]
     \/ \E recipe \in get_by_id(recipe_id) :
          sresp' = [RepoAnswer("get_by_id", caller) EXCEPT
                      !.id = recipe_id, !.body = <<recipe>>]
  /\ UNCHANGED <<recipes, nextRecipeId, nonSavedVars>>

\* RecipeRepository.get_by_user_id(user_id)
RepoGetByUserId(caller) ==
  /\ IsUser(caller)
  /\ \E list \in get_by_user_id(caller) :
       sresp' = [RepoAnswer("get_by_user_id", caller) EXCEPT !.body = list]
  /\ UNCHANGED <<recipes, nextRecipeId, nonSavedVars>>

\* RecipeRepository.create({"user_id": ..., "recipe_json": ...})
RepoCreate(caller, recipe_json) ==
  /\ IsUser(caller)
  /\ nextRecipeId <= MaxRecipes
  /\ recipes' = recipes \cup {Recipe(caller, recipe_json, nextRecipeId)}
  /\ nextRecipeId' = nextRecipeId + 1
  /\ sresp' = [RepoAnswer("create", caller) EXCEPT
                 !.id = nextRecipeId,
                 !.body = <<Recipe(caller, recipe_json, nextRecipeId)>>]
  /\ UNCHANGED nonSavedVars

\* RecipeRepository.delete(recipe_id, user_id): detail is the value returned
RepoDelete(caller, recipe_id) ==
  /\ IsUser(caller)
  /\ IF OwnedRecipes(recipe_id, caller) # {}
     THEN /\ \E recipe \in OwnedRecipes(recipe_id, caller) :
               recipes' = recipes \ {recipe}
          /\ sresp' = [RepoAnswer("delete", caller) EXCEPT
                         !.id = recipe_id, !.detail = "True"]
     ELSE /\ sresp' = [RepoAnswer("delete", caller) EXCEPT
                         !.id = recipe_id, !.detail = "False"]
          /\ UNCHANGED recipes
  /\ UNCHANGED <<nextRecipeId, nonSavedVars>>

\* RecipeRepository.count_by_user(user_id): id is the count returned
RepoCountByUser(caller) ==
  /\ IsUser(caller)
  /\ sresp' = [RepoAnswer("count_by_user", caller) EXCEPT
                 !.id = Cardinality({r \in recipes : r.user_id = caller})]
  /\ UNCHANGED <<recipes, nextRecipeId, nonSavedVars>>

RepoNext ==
  \/ \E caller \in UserIds, recipe_id \in 1..MaxRecipes : RepoGetById(caller, recipe_id)
  \/ \E caller \in UserIds : RepoGetByUserId(caller)
  \/ \E caller \in UserIds, recipe_json \in RecipeDocs : RepoCreate(caller, recipe_json)
  \/ \E caller \in UserIds, recipe_id \in 1..MaxRecipes : RepoDelete(caller, recipe_id)
  \/ \E caller \in UserIds : RepoCountByUser(caller)

\* the users table holds the first or both of the registered users
SavedInit ==
  /\ GenInit
  /\ StoreInit
  /\ NoSanitizing
  /\ LoopIdle
  /\ \E n \in 1..2 :
       /\ users = {u \in RegisteredUsers : u.id <= n}
       /\ nextId = n + 1
  /\ now = 0
  /\ areq = [c \in Clients |-> IdleRequest]

Init == GenInit /\ AuthInit /\ StoreInit /\ NoSanitizing /\ LoopIdle

Next == GenNext

Spec == Init /\ [][Next]_vars

AuthSpec == Init /\ [][AuthNext]_vars

SavedSpec == SavedInit /\ [][SavedNext]_vars

(***************************************************************************)
(* The two classifiers applied to one text: passes holds what each says.   *)
(***************************************************************************)
ClassifierSymbols ==
  {"cook", "Recipe", "pasta", "chicken", "ingredients", "prepare", "serve",
   "spice", "sauce", "weather", "politics", " "}

\* the queries of test_is_cooking_related_positive
TestedPositive ==
  { <<"How do I ", "cook", " ", "chicken", "?">>,
    <<"Recipe", " for ", "pasta">>,
    <<"What ", "ingredients", " do I need?">> }

\* the queries of test_is_cooking_related_negative
TestedNegative ==
  { <<"What is the ", "weather", " today?">>,
    <<"Tell me about ", "politics">> }

ClassifierTexts ==
  SeqsUpTo(ClassifierSymbols, MaxTextLen) \cup TestedPositive \cup TestedNegative

ClassifyInit ==
  /\ GenInit
  /\ AuthInit
  /\ StoreInit
  /\ LoopIdle
  /\ text \in ClassifierTexts
  /\ limit = SanitizeMaxLength
  /\ passes = <<>>

\* both classifiers are asked about text
Classify ==
  /\ passes = <<>>
  /\ passes' = <<[tested |-> is_cooking_related(text),
                  gate |-> _is_cooking_related(text)]>>
  /\ UNCHANGED <<text, limit, nonSanVars>>

ClassifySpec == ClassifyInit /\ [][Classify]_vars

\* a text to sanitize, nothing else going on
SanitizeInit == GenInit /\ AuthInit /\ StoreInit /\ SanInit /\ LoopIdle

SanitizeSpec == SanitizeInit /\ [][SanNext]_vars

\* every invocation of the model ends (one that never returns raises), and
\* every sleep ends
FairSpec ==
  /\ Spec
  /\ WF_vars(\E error_str \in UpstreamErrors : ModelRaises(error_str))
  /\ WF_vars(SleepElapses)

RepoSpec == SavedInit /\ [][RepoNext]_vars

\* requests pending on the event loop, nothing else going on
PendingInit == GenInit /\ AuthInit /\ StoreInit /\ NoSanitizing /\ LoopInit

LoopSpec == PendingInit /\ [][LoopNext]_vars

(***************************************************************************)
(* Properties of the generation pipeline, checked under Spec.              *)
(***************************************************************************)
StrictlyIncreasing(seq) ==
  \A i, j \in 1..Len(seq) : i < j => seq[i] < seq[j]

GenerationFailedMessages ==
  { <<"Failed to generate valid recipe after retries">>,
    <<"Failed to generate suggestions">> }

\* this step logs one more failed attempt of the orchestrator
LogsFailedAttempt == Len(warnings') = Len(warnings) + 1

\* this step logs one more failed invocation of the model
LogsFailedInvocation == Len(errors') = Len(errors) + 1

\* C1: in generate_recipe and generate_from_ingredients a reply with no {...}
\* span, with invalid JSON or failing the schema is answered by a fresh model
\* call with the identical prompt, for at most 3 outer attempts; the first reply
\* that validates ends the loop and its value is returned; the third malformed
\* reply ends the operation with a generic generation-failed error.
C1_State ==
  op \in GenOps =>
          /\ attempt \in 0..2
          /\ Len(warnings) <= 3
          /\ \A i \in 1..Len(sent) : sent[i] = prompt
          /\ \A i \in 1..Len(warnings) :
               /\ warnings[i].attempt = i
               /\ warnings[i].error.class \in {"JSONDecodeError", "ValidationError"}
          /\ pc # "done" => Len(warnings) = attempt
          /\ pc = "done" /\ outcome.kind = "value" =>
               /\ Len(warnings) = attempt
               /\ ExtractAndValidate(op, response).ok
               /\ outcome.value = ExtractAndValidate(op, response).value
          /\ Len(warnings) = 3 <=> pc = "done" /\ outcome.raisedBy = op
          /\ outcome.raisedBy = op =>
               /\ outcome.kind = "error"
               /\ outcome.text \in GenerationFailedMessages

C1_Step ==
  op \in GenOps /\ LogsFailedAttempt =>
    IF Len(warnings) < 2
    THEN /\ pc' = "invoke"
         /\ attempt' = attempt + 1
         /\ prompt' = prompt
         /\ sent' = Append(sent, prompt)
    ELSE /\ pc' = "done"
         /\ sent' = sent

\* C1: the outer retry loop of the two generate operations: at most 3
\* attempts with the identical prompt, the first validating reply returned, a
\* generic generation-failed error after the third malformed reply.
C1_OuterRetry == []C1_State /\ [][C1_Step]_vars

\* three outer attempts, one malformed in each of the three ways, then the error
C1_Witness ==
  /\ op = "recipe"
  /\ pc = "done"
  /\ outcome.kind = "error"
  /\ outcome.text = <<"Failed to generate valid recipe after retries">>
  /\ Len(sent) = 3
  /\ Len(warnings) = 3
  /\ warnings[1].error.msg = "No JSON found in response"
  /\ warnings[2].error.msg = "json.loads"
  /\ warnings[3].error.class = "ValidationError"

\* C2: when the generation client gives up (a failed invocation that it does
\* not retry) during any outer attempt of generate_recipe or
\* generate_from_ingredients, its error reaches the caller at once: no further
\* outer attempt and no further model call is made for the request.
C2_Step ==
  /\ op \in GenOps /\ LogsFailedInvocation /\ pc' # "sleep" =>
       /\ pc' = "done"
       /\ outcome'.kind = "error"
       /\ outcome'.raisedBy = "_generate_with_gemini"
       /\ http'.status = 400
       /\ http'.text = outcome'.text
       /\ attempt' = attempt
       /\ warnings' = warnings
       /\ sent' = sent
  /\ pc = "done" => pc' = "done" /\ sent' = sent /\ attempt' = attempt

\* C2: an error raised by the generation client leaves the outer loop at
\* once, in any attempt, with no further model call.
C2_UpstreamPropagates == [][C2_Step]_vars

\* the client gives up in the third outer attempt, after two malformed replies
C2_Witness ==
  /\ op \in GenOps
  /\ pc = "done"
  /\ outcome.raisedBy = "_generate_with_gemini"
  /\ attempt = 2
  /\ Len(warnings) = 2
  /\ Len(sent) = 3

\* C3 as stated: for all three operations a value derived from the model is
\* returned only after it passed extract-and-validate; raw model text is never
\* returned.
C3_AllOperationsValidate ==
  pc = "done" /\ outcome.kind \in {"value", "text"} /\ sent # <<>> =>
    /\ outcome.kind = "value"
    /\ op \in GenOps
    /\ ExtractAndValidate(op, response).ok

\* C3, amended: generate_recipe and generate_from_ingredients return only the
\* validated value of a reply, within the 3 outer attempts; chat_response
\* returns the raw text of the model's reply after one client call, unvalidated.
C3_GenerateOperationsValidate ==
  pc = "done" /\ outcome.kind \in {"value", "text"} /\ sent # <<>> =>
    IF op \in GenOps
    THEN /\ outcome.kind = "value"
         /\ ExtractAndValidate(op, response).ok
         /\ outcome.value = ExtractAndValidate(op, response).value
         /\ http.value = outcome.value
         /\ http.text = <<>>
         /\ attempt \in 0..2
    ELSE /\ op = "chat"
         /\ outcome.kind = "text"
         /\ outcome.text = response
         /\ http.text = response
         /\ attempt = 0
         /\ warnings = <<>>

\* a generate operation returned the value of a document wrapped in prose, on
\* its second attempt
C3_Witness ==
  /\ op = "ingredients"
  /\ pc = "done"
  /\ outcome.kind = "value"
  /\ response = <<"p", "{", "s", "}", "p">>
  /\ http.status = 200
  /\ attempt = 1

\* C4: a client call whose invocation fails with a retryable signal twice and
\* then succeeds returns the text of the third invocation, having slept before
\* each retry with strictly increasing delays; an invocation that fails with a
\* non-retryable error makes the call raise at once, without a sleep or a retry.
C4_State ==
  /\ StrictlyIncreasing(slept)
  /\ pc = "invoke" => Len(slept) = gattempt
  /\ pc = "sleep" => Len(slept) = gattempt + 1
  /\ gattempt \in 0..2

C4_Step ==
  /\ pc = "invoke" /\ gattempt = 2 /\ ~LogsFailedInvocation =>
       /\ slept = <<2, 4>>
       /\ outcome'.raisedBy # "_generate_with_gemini"
       /\ op = "chat" => pc' = "done" /\ outcome' = ReturnedText(response')
  /\ LogsFailedInvocation /\ ~errors'[Len(errors')].retryable =>
       /\ pc' = "done"
       /\ outcome'.kind = "error"
       /\ outcome'.raisedBy = "_generate_with_gemini"
       /\ slept' = slept
       /\ nsleeps' = nsleeps
       /\ sent' = sent

\* C4: the client retries retryable failures with strictly increasing sleeps
\* and returns the text of the invocation that succeeds; a non-retryable
\* failure raises at once, with no sleep and no further invocation.
C4_ClientRetry == []C4_State /\ [][C4_Step]_vars

\* chat: two retryable failures, then the third invocation's text is returned
C4_Witness ==
  /\ op = "chat"
  /\ pc = "done"
  /\ outcome.kind = "text"
  /\ outcome.text = <<"p", "{", "r">>
  /\ Len(errors) = 2
  /\ errors[1].retryable /\ errors[2].retryable
  /\ slept = <<2, 4>>
  /\ Len(sent) = 3

\* C5 as stated: a client call in which every invocation fails with a
\* retryable signal makes at most 3 invocations, sleeps 2s, 4s and 8s, and then
\* fails with the service-busy error.
C5_BackoffTwoFourEight ==
  pc = "done" /\ outcome.kind = "error" /\ outcome.text = BusyMessage =>
    /\ gattempt <= 2
    /\ slept = <<2, 4, 8>>

\* C6 as stated: whenever the generation client fails, the detail the route
\* returns is a fixed generic message without the raw upstream error text.
C6_NoUpstreamTextInDetail ==
  pc = "done" /\ outcome.raisedBy = "_generate_with_gemini" =>
    ~Contains(http.text, ErrSymbols)


(***************************************************************************)
(* Properties of the authentication flows, checked under AuthSpec.         *)
(***************************************************************************)
\* this step is the first of a request of the given kind by client c
StartsRequest(c, kind) == areq[c].pc = "idle" /\ areq'[c].kind = kind

\* this step is the insert of a request of the given kind by client c
Creates(c, kind) ==
  areq[c].pc = "create" /\ areq[c].kind = kind /\ areq'[c].pc = "done"

Done(c, kind) == areq[c].pc = "done" /\ areq[c].kind = kind

EmailTaken(email) == \E u \in users : u.email = email

GoogleIdTaken(google_id) == \E u \in users : u.google_id = google_id

\* the token and the user of a response are those of row u
IssuedFor(result, u) ==
  /\ result.status = 200
  /\ result.access_token.sub = u.email
  /\ result.access_token.email = u.email
  /\ result.access_token.user_id = u.id
  /\ result.user.id = u.id

\* the steps of a signup by client c
C7_SignupStep(c) ==
  /\ StartsRequest(c, "signup") /\ EmailTaken(areq'[c].email)
       => /\ areq'[c].pc = "done"
          /\ areq'[c].result = BadRequest(DuplicateEmail)
          /\ users' = users
  /\ StartsRequest(c, "signup") /\ ~EmailTaken(areq'[c].email)
       => /\ areq'[c].pc = "create"
          /\ users' = users
  /\ Creates(c, "signup") /\ ~EmailTaken(areq[c].email)
       => \E u \in users' \ users :
            /\ users' = users \cup {u}
            /\ \A v \in users : v.id # u.id
            /\ u.email = areq[c].email
            /\ u.password_hash # NoHash
            /\ verify_password(areq[c].password, u.password_hash)
            /\ u.google_id = NULL
            /\ IssuedFor(areq'[c].result, u)
  /\ Creates(c, "signup") /\ areq'[c].result.status # 200
       => /\ areq'[c].result.status = 400
          /\ areq'[c].result.access_token = NoToken
          /\ users' = users

\* C7: a signup whose email no user has creates exactly one user, with the
\* password credential set and the external-identity id null, and returns a
\* token whose claims carry that user's email and id; a signup that starts
\* when a user has the email fails with the duplicate-email error (HTTP 400),
\* creates no user and leaves the users table unchanged.
C7_SignupOnce == [][\A c \in Clients : C7_SignupStep(c)]_vars

\* one signup succeeded and a later signup with its email was rejected as a
\* duplicate, with one user in the table
C7_Witness ==
  \E c, d \in Clients :
    /\ Done(c, "signup") /\ areq[c].result.status = 200
    /\ Done(d, "signup") /\ areq[d].result = BadRequest(DuplicateEmail)
    /\ areq[c].email = areq[d].email
    /\ Cardinality(users) = 1

\* the login step of client c
C8_LoginStep(c) ==
  StartsRequest(c, "login") =>
    /\ users' = users
    /\ nextId' = nextId
    /\ areq'[c].pc = "done"
    /\ LET result == areq'[c].result
           found == {u \in users : u.email = areq'[c].email}
       IN  IF found = {}
           THEN result = BadRequest(InvalidCredential)
           ELSE \E u \in found :
                  IF u.password_hash = NoHash
                  THEN result = BadRequest(WrongAuthMethod)
                  ELSE IF ~verify_password(areq'[c].password, u.password_hash)
                  THEN result = BadRequest(InvalidCredential)
                  ELSE IssuedFor(result, u)

\* C8: login checks in this order, each failure ending the flow with no token
\* and the users table unchanged: no user with the email gives
\* InvalidCredential; a user without a password credential gives
\* WrongAuthMethod whatever the password; a password that does not verify
\* gives InvalidCredential; otherwise a token is issued for the user found by
\* the email.
C8_LoginOrder == [][\A c \in Clients : C8_LoginStep(c)]_vars

\* a password login of an OAuth-only user was answered WrongAuthMethod, a
\* login with a wrong password InvalidCredential
C8_Witness ==
  \E c, d \in Clients :
    /\ Done(c, "login") /\ areq[c].result = BadRequest(WrongAuthMethod)
    /\ Done(d, "login") /\ areq[d].result = BadRequest(InvalidCredential)
    /\ \E u \in users : /\ u.email = areq[d].email
                        /\ u.password_hash # NoHash

\* the steps of an OAuth login by client c with an external id
C9_GoogleStep(c) ==
  /\ ( /\ StartsRequest(c, "google")
       /\ areq'[c].email # NULL
       /\ areq'[c].google_id # NULL
       /\ GoogleIdTaken(areq'[c].google_id) )
       => /\ areq'[c].pc = "done"
          /\ users' = users
          /\ \E u \in users : /\ u.google_id = areq'[c].google_id
                              /\ IssuedFor(areq'[c].result, u)
  /\ ( /\ Creates(c, "google")
       /\ areq[c].google_id # NULL
       /\ areq'[c].result.status = 200 )
       => /\ ~GoogleIdTaken(areq[c].google_id)
          /\ \E u \in users' \ users :
               /\ users' = users \cup {u}
               /\ \A v \in users : v.id # u.id
               /\ u.google_id = areq[c].google_id
               /\ u.password_hash = NoHash
               /\ IssuedFor(areq'[c].result, u)
  /\ users \subseteq users'

\* no two users have the same external id, or the same id
C9_OneUserPerGoogleId ==
  \A u, v \in users :
    (u.id = v.id \/ (u.google_id # NULL /\ u.google_id = v.google_id)) => u = v

\* C9: OAuth login is idempotent per external id: the first successful OAuth
\* login with an external id creates one user (external id set, no password),
\* and every later OAuth login with that external id returns a token for that
\* same user id and leaves the users table unchanged; rows are never removed.
C9_OAuthIdempotent ==
  []C9_OneUserPerGoogleId /\ [][\A c \in Clients : C9_GoogleStep(c)]_vars

\* two OAuth logins with one external id both succeeded, for the one user
C9_Witness ==
  \E c, d \in Clients :
    /\ c # d
    /\ Done(c, "google") /\ Done(d, "google")
    /\ areq[c].google_id # NULL
    /\ areq[c].google_id = areq[d].google_id
    /\ areq[c].result.status = 200 /\ areq[d].result.status = 200
    /\ areq[c].result.access_token.user_id = areq[d].result.access_token.user_id
    /\ Cardinality(users) = 1

\* C10: in every reachable state, after any interleaving of concurrent signup,
\* login and OAuth requests, no two users have the same email.
C10_EmailUnique == \A u, v \in users : u.email = v.email => u = v

\* of two simultaneous signups with one email the second insert failed, and
\* an OAuth first login with that email, registered by password, failed too
C10_Witness ==
  \E c, d \in Clients :
    /\ Done(c, "signup") /\ areq[c].result = BadRequest(SignupFailed)
    /\ Done(d, "google") /\ areq[d].result = BadRequest(AuthenticationFailed)
    /\ areq[d].google_id # NULL
    /\ areq[d].name # NULL
    /\ areq[c].email = areq[d].email
    /\ \E u \in users : u.email = areq[c].email /\ u.password_hash # NoHash


\* C11 as stated: in every reachable state every user has at least one
\* authentication method, a password credential or an external-identity id,
\* whatever the verified identity token carries besides a present email.
C11_HasAuthMethod ==
  \A u \in users : u.password_hash # NoHash \/ u.google_id # NULL


(***************************************************************************)
(* Properties of the bearer-token routes, checked under SavedSpec.         *)
(***************************************************************************)
\* the recipes of a user in a table
RecipesOf(table, user_id) == {r \in table : r.user_id = user_id}

\* this step is a request to a saved-recipes route, answered with sresp'
SavedRequest(route) == sresp' # sresp /\ sresp'.route = route

\* the steps of the saved-recipes routes, the caller being sresp'.user_id
C12_Step ==
  /\ sresp' = sresp => recipes' = recipes
  /\ \A r \in recipes' : \A s \in recipes' : r.id = s.id => r = s
  /\ \A b \in {u.id : u \in RegisteredUsers} :
       b # sresp'.user_id => RecipesOf(recipes', b) = RecipesOf(recipes, b)
  /\ SavedRequest("delete") =>
       LET owned == {r \in recipes : r.id = sresp'.id /\ r.user_id = sresp'.user_id}
       IN  IF sresp'.user_id = 0
           THEN sresp'.status \in {401, 403} /\ recipes' = recipes
           ELSE IF owned = {}
           THEN /\ sresp'.status = 404
                /\ sresp'.detail = "Recipe not found"
                /\ recipes' = recipes
           ELSE /\ sresp'.status = 200
                /\ recipes' = recipes \ owned
                /\ Cardinality(owned) = 1
  /\ SavedRequest("save") /\ sresp'.status = 200 =>
       \E r \in recipes' \ recipes :
         /\ recipes' = recipes \cup {r}
         /\ r.user_id = sresp'.user_id
         /\ r.id = sresp'.id
  /\ SavedRequest("list") => recipes' = recipes

\* C12: DELETE /saved/recipes/{id} by user A removes a recipe only if it
\* exists and is owned by A; when the id does not exist or the recipe is owned
\* by another user the answer is 404 in both cases and the recipes table is
\* unchanged; no request by A changes the recipes of another user B.
C12_DeleteOwnedOnly == [][C12_Step]_vars

\* user A asked to delete a recipe of user B and was answered 404, B's recipe
\* still being there
C12_Witness ==
  /\ sresp.route = "delete"
  /\ sresp.status = 404
  /\ sresp.user_id # 0
  /\ \E r \in recipes : r.id = sresp.id /\ r.user_id # sresp.user_id


\* C13 as stated: for any recipe_data a user saved, the entry for it in that
\* user's listing has every field of recipe_data with the same value and an id
\* field equal to the store id that save-recipe returned.
C13_ListingRoundTrip ==
  sresp.route = "list" /\ sresp.status = 200 =>
    \A r \in RecipesOf(recipes, sresp.user_id) :
      \E i \in 1..Len(sresp.body) :
        /\ sresp.body[i].id = r.id
        /\ \A k \in DOMAIN r.recipe_json : sresp.body[i][k] = r.recipe_json[k]


(***************************************************************************)
(* Properties of the sanitizer, checked under SanitizeSpec.                *)
(***************************************************************************)
\* some listed injection phrasing matches somewhere in t
HasInjection(t) ==
  \E n \in 1..Len(injection_patterns), i \in 1..Len(t) :
    MatchEnd(t, i, injection_patterns[n], 1) # 0

\* t[i..k] is shaped like a tag: '<', one or more symbols other than '>', '>'
TagSpan(t, i, k) ==
  /\ t[i] = "<"
  /\ k >= i + 2
  /\ t[k] = ">"
  /\ \A p \in (i + 1)..(k - 1) : t[p] # ">"

HasTag(t) == \E i, k \in 1..Len(t) : TagSpan(t, i, k)

\* the symbols of t that lie in no tag-shaped span, in order
RECURSIVE OutsideTags(_, _)
OutsideTags(t, p) ==
  IF p > Len(t) THEN <<>>
  ELSE (IF \E i \in 1..p, k \in p..Len(t) : TagSpan(t, i, k) THEN <<>> ELSE <<t[p]>>)
       \o OutsideTags(t, p + 1)

\* nothing in t for the later steps of the sanitizer to change
Plain(t) ==
  /\ \A i \in 1..Len(t) : t[i] \notin WS
  /\ ~HasInjection(t)
  /\ \A i \in 1..Len(t) : MatchEnd(t, i, ScriptPattern, 1) = 0

\* C14 as stated: the sanitizer is idempotent, sanitize(sanitize(x)) equals
\* sanitize(x) for every text x and every max_length.
C14_Idempotent == Len(passes) = 2 => passes[2] = passes[1]

\* C15 as stated: for every input that contains a match of a listed injection
\* phrasing, the output of the sanitizer contains no match of any listed
\* injection phrasing.
C15_NoInjectionLeft ==
  Len(passes) >= 1 /\ HasInjection(text) => ~HasInjection(passes[1])

\* C16: for every input with tag-shaped substrings, nested or overlapping
\* ones too, the output of the sanitizer has no tag-shaped substring, and the
\* text outside the tags is kept: when that text is plain and within
\* max_length, it is the output.
C16_NoTagLeft ==
  Len(passes) >= 1 /\ HasTag(text) =>
    /\ ~HasTag(passes[1])
    /\ LET outside == OutsideTags(text, 1)
       IN  Plain(outside) /\ Len(outside) <= limit => passes[1] = outside

\* a tag fragment inside a tag was sanitized, and text outside them was kept
C16_Witness ==
  /\ Len(passes) >= 1
  /\ \E i, j, k \in 1..Len(text) :
       i < j /\ j < k /\ TagSpan(text, i, k) /\ text[j] = "<"
  /\ passes[1] # <<>>
  /\ passes[1] = OutsideTags(text, 1)


(***************************************************************************)
(* Properties of the chat gate, checked under Spec.                        *)
(***************************************************************************)
\* some keyword of the classifier occurs in t, whatever the case
HasKeyword(t) == \E i \in 1..Len(t) : Lower(t[i]) \in ServiceKeywordSymbols

\* what a chat request with this message may do
C17_Gate(authenticated, user_message) ==
  /\ authenticated /\ ~HasKeyword(_sanitize_input(user_message))
       => /\ pc' = "done"
          /\ outcome' = ReturnedText(DeclineMessage)
          /\ http'.status = 200
          /\ sent' = <<>>
  /\ sent' # <<>> => authenticated /\ HasKeyword(_sanitize_input(user_message))

\* C17: a chat request whose sanitized message contains no keyword of the
\* topic classifier returns the fixed decline message and makes no call to the
\* generation client; the model is called for chat only when the sanitized
\* message is on topic; once declined, nothing more is sent.
C17_ChatGate ==
  [][ /\ \A authenticated \in BOOLEAN, user_message \in UserTexts,
            context \in ChatContexts :
           Chat(authenticated, user_message, context)
             => C17_Gate(authenticated, user_message)
      /\ pc = "done" => sent' = sent ]_vars

\* a chat request was declined without a call of the model
C17_Witness ==
  /\ op = "chat"
  /\ pc = "done"
  /\ outcome = ReturnedText(DeclineMessage)
  /\ sent = <<>>


(***************************************************************************)
(* Properties of the event loop, checked under LoopSpec.                   *)
(***************************************************************************)
\* C18 as stated: while one request is waiting on the external AI call or on
\* a backoff sleep, the process is not blocked: any other pending request can
\* take its steps.
C18_NotBlocked ==
  \A r, q \in Requests :
    /\ r # q
    /\ tasks[r].pc \in {"calling", "sleeping"}
    /\ tasks[q].pc = "pending"
    => ENABLED Serve(q)


(***************************************************************************)
(* Properties of the bearer-token dependency, checked under SavedSpec.     *)
(***************************************************************************)
\* the token is one that the claim lets through: signed by the service, not
\* after its expiry, and of an email that a user has
TokenAccepted(token) ==
  /\ token.signed
  /\ now <= token.claims.exp
  /\ \E u \in users : u.email = token.claims.email

\* the request was refused with 401 and neither the model nor a store changed
C19_Refused(status) ==
  /\ status = 401
  /\ sent' = sent
  /\ recipes' = recipes
  /\ users' = users

\* what a request with this token does to the saved-recipes routes
C19_Saved(token) ==
  IF TokenAccepted(token)
  THEN /\ sresp'.status # 401
       /\ sresp'.user_id \in {u.id : u \in {v \in users : v.email = token.claims.email}}
  ELSE C19_Refused(sresp'.status)

\* what a request with this token does to the chat route, the step being
\* ChatRoute(token, user_message, NoContext) for some message
C19_Chat(token) ==
  IF TokenAccepted(token)
  THEN http'.status # 401
  ELSE C19_Refused(http'.status) /\ pc' = "done"

C19_Step ==
  /\ \A token \in BearerTokens :
       /\ \A recipe_data \in RecipeDocs :
            SaveRecipe(token, recipe_data) => C19_Saved(token)
       /\ GetSavedRecipes(token) => C19_Saved(token)
       /\ \A recipe_id \in 1..MaxRecipes :
            DeleteRecipe(token, recipe_id) => C19_Saved(token)
  /\ pc' # pc =>
       \A authenticated \in BOOLEAN :
         (\E user_message \in UserTexts :
            Chat(authenticated, user_message, NoContext))
         => \A token \in BearerTokens :
              Issued(token) /\ get_current_user(token).ok = authenticated
                => C19_Chat(token)
  /\ \A status_code \in NotAuthenticatedStatuses :
       /\ \A route \in {"save", "list", "delete"} :
            SavedWithoutHeader(route, status_code) =>
              sent' = sent /\ recipes' = recipes /\ users' = users
       /\ pc' # pc =>
            \A user_message \in UserTexts :
              ChatWithoutHeader(user_message, NoContext, status_code) =>
                sent' = sent /\ recipes' = recipes /\ users' = users
  /\ sresp'.status \in {0, 401, 403} => recipes' = recipes

C20_ChatWithoutHeaderOk ==
  [][ \A user_message \in UserTexts, status_code \in NotAuthenticatedStatuses :
        HasKeyword(user_message) /\ ChatWithoutHeader(user_message, NoContext, status_code)
          => http'.status = 200 /\ http'.text # <<>> /\ outcome'.kind = "text" ]_vars


(***************************************************************************)
(* Properties of the prompt builder's inputs, checked under Spec.          *)
(***************************************************************************)
\* one entry of context with its texts passed through the sanitizer
SanitizedExchange(msg) ==
  CASE msg.shape = "pair" ->
         [msg EXCEPT !.user = _sanitize_input(@), !.assistant = _sanitize_input(@)]
    [] msg.shape = "role" -> [msg EXCEPT !.content = _sanitize_input(@)]
    [] OTHER -> msg

SanitizedContext(context) ==
  [i \in 1..Len(context) |-> SanitizedExchange(context[i])]

\* the prompt of this step holds the request's texts as the sanitizer returns them
C21_Step ==
  /\ \A dish_name \in UserTexts :
       GenerateRecipe(dish_name) =>
         prompt' = _build_recipe_prompt(_sanitize_input(dish_name))
  /\ \A ingredients \in IngredientLists :
       GenerateFromIngredients(ingredients) =>
         prompt' = _build_ingredient_prompt(
                     [i \in 1..Len(ingredients) |-> _sanitize_input(ingredients[i])])
  /\ \A user_message \in UserTexts, context \in ChatContexts :
       Chat(TRUE, user_message, context) /\ pc' = "invoke" =>
         prompt' = _build_chat_prompt(_sanitize_input(user_message),
                                      SanitizedContext(context))

\* C21 as stated: every piece of user-supplied text that the prompt builder
\* interpolates into a prompt (dish name, each ingredient, chat message, and
\* the content of each prior exchange in the chat context) has passed through
\* the input sanitizer before it is embedded.
C21_PromptTextsSanitized == [][C21_Step]_vars


(***************************************************************************)
(* Properties of the recipe store, checked under RepoSpec.                 *)
(***************************************************************************)
\* what an operation called for sresp'.user_id returns and removes
C22_Step ==
  /\ \A i \in DOMAIN sresp'.body : sresp'.body[i].user_id = sresp'.user_id
  /\ \A r \in recipes \ recipes' : r.user_id = sresp'.user_id

\* C22 as stated: every recipe store operation that takes a record id (lookup
\* by id, delete) filters by the owner id in addition to the record id, so no
\* operation called on behalf of user A returns or removes a recipe owned by
\* user B.
C22_OwnerScoped == [][C22_Step]_vars


(***************************************************************************)
(* Termination and the work of one request, checked under FairSpec.        *)
(***************************************************************************)
\* the invocations and sleeps of the request so far are within the bounds
C23_State ==
  /\ op \in GenOps => Len(sent) <= 9 /\ nsleeps <= 6
  /\ op = "chat" => Len(sent) <= 3 /\ nsleeps <= 2
  /\ pc = "done" /\ http.status # 401 => outcome.kind \in {"value", "text", "error"}
  /\ pc = "idle" => sent = <<>> /\ nsleeps = 0

\* an invocation starts only when none is outstanding: at the start of the
\* request, after a sleep, or in the step that handled the reply of the last one
C23_Step ==
  sent' # sent =>
    /\ Len(sent') = Len(sent) + 1
    /\ pc' = "invoke"
    /\ pc = "invoke" => warnings' # warnings

\* C23: every generate_recipe, generate_from_ingredients and chat request ends
\* with a value or an error whatever the model answers, after at most 9 model
\* invocations and 6 backoff sleeps for the two generate operations and at
\* most 3 invocations and 2 sleeps for chat, with never more than one model
\* invocation outstanding.
C23_BoundedWork ==
  /\ []C23_State
  /\ [][C23_Step]_vars
  /\ (pc \in {"invoke", "sleep"}) ~> (pc = "done")

\* a generate operation that used all of its 9 invocations and 6 sleeps
C23_Witness ==
  /\ op \in GenOps
  /\ pc = "done"
  /\ Len(sent) = 9
  /\ nsleeps = 6
  /\ outcome.kind = "error"


(***************************************************************************)
(* The two topic classifiers compared, checked under ClassifySpec.         *)
(***************************************************************************)
\* C24 as stated: the classifier that gates chat agrees with the tested
\* classifier: every text the tested classifier accepts as cooking-related is
\* also accepted by the chat gate, and the texts the tests expect to be
\* rejected are rejected by both.
C24_GateAcceptsTested ==
  passes # <<>> =>
    /\ passes[1].tested => passes[1].gate
    /\ text \in TestedNegative => ~passes[1].tested /\ ~passes[1].gate

====
